---------------------------- MODULE Spec2Model ----------------------------
(***************************************************************************)
(* Model of src/geojson2vectortile.js: a point-only GeoJSON to Mapbox      *)
(* Vector Tile converter (protobuf primitives, feature/layer encoder,      *)
(* tile clipping and projection, tile range resolver, main loop).          *)
(*                                                                         *)
(* Numbers.  The program computes in IEEE doubles.  The model places every *)
(* coordinate on a dyadic Web-Mercator grid of 2^GridBits units per world  *)
(* width, and carries                                                      *)
(*   - a longitude lon as the integer u with lon = u*360/N - 180,          *)
(*   - a latitude as its Mercator northing m (m = 0 at the southern        *)
(*     Mercator limit -85.0511, m = N at the northern limit +85.0511),     *)
(*     with codes beyond N for latitudes between the limit and the pole,   *)
(*     Lat90 for +90, LatOver90 for a latitude above +90, LatS90 for -90.  *)
(* On this grid tile2lon, long2tileX and the edge comparisons of           *)
(* generateTilePbf are exact in doubles (all quotients are dyadic), and    *)
(* tile2lat(y, z) is the same double for the same edge at every zoom, so   *)
(* the model computes them in exact integer arithmetic.  Two places differ: *)
(*   - lat2tileY of a latitude lying exactly on a row edge: the double     *)
(*     expression may evaluate just below the integer, and Math.floor then *)
(*     yields the row above.  The outcome is an explicit argument.  A run  *)
(*     draws one outcome for the bbox's north and one for its south and    *)
(*     uses them at every zoom; zoom levels share no state, so every       *)
(*     behaviour of a single zoom level is covered.                        *)
(*   - projectToTileCoordinates is computed exactly.  A point on a tile    *)
(*     edge gives exactly 0 or extent in doubles as well (the operands of  *)
(*     the subtraction or of the quotient are equal doubles); away from    *)
(*     the edges the double quotient is within one unit of the exact one.  *)
(* Three specifications: Spec is the main part of the program; FnSpec      *)
(* applies single functions to drawn arguments; ParSpec runs the tile      *)
(* computations of one zoom level on two interleaved workers.              *)
(***************************************************************************)
EXTENDS Integers, Sequences, FiniteSets, TLC

\* ------------------------------------------------------------------ bounds
GridBits == 19
Span == 3
MaxFeatures == 2

N == 2 ^ GridBits

\* --------------------------------------------------------- JS number model
\* IEEE special values as integers outside the range of every finite value
\* of the model; comparisons with NaN are false, as in JavaScript.
Infinity == 2 ^ 30
NegInfinity == 0 - Infinity
NaN == NegInfinity - 1

IsNaN(v) == v = NaN
Lt(a, b) == ~IsNaN(a) /\ ~IsNaN(b) /\ a < b
Le(a, b) == ~IsNaN(a) /\ ~IsNaN(b) /\ a <= b
Gt(a, b) == ~IsNaN(a) /\ ~IsNaN(b) /\ a > b
Ge(a, b) == ~IsNaN(a) /\ ~IsNaN(b) /\ a >= b
MathMin(a, b) == IF IsNaN(a) \/ IsNaN(b) THEN NaN ELSE IF a < b THEN a ELSE b
MathMax(a, b) == IF IsNaN(a) \/ IsNaN(b) THEN NaN ELSE IF a > b THEN a ELSE b

\* Buffer.from(array): every element is stored modulo 256.
BufferFrom(arr) == [i \in 1..Len(arr) |-> arr[i] % 256]

\* Buffer.from(str, 'utf8') of a string given as its sequence of code points
\* (basic multilingual plane).
RECURSIVE Utf8(_)
Utf8(str) ==
  IF str = <<>> THEN <<>>
  ELSE LET c == Head(str)
           b == IF c < 128 THEN <<c>>
                ELSE IF c < 2048 THEN <<192 + (c \div 64), 128 + (c % 64)>>
                ELSE <<224 + (c \div 4096), 128 + ((c \div 64) % 64), 128 + (c % 64)>>
       IN b \o Utf8(Tail(str))

\* "myLayer"
LayerName == <<109, 121, 76, 97, 121, 101, 114>>

\* ------------------------------------------------ Protobuf / MVT primitives
\* writeVarint for a value below 2^31 (ToInt32 is the identity there):
\* val & 0x7F is val % 128, val >> 7 is the floor division by 128.
RECURSIVE writeVarint(_, _)
writeVarint(arr, val) ==
  IF val > 127
  THEN writeVarint(Append(arr, (val % 128) + 128), val \div 128)
  ELSE Append(arr, val)

\* writeVarint entered with val = 2^31 + lo (0 <= lo < 2^31), a value TLC's
\* integers cannot hold: the first pass of the loop pushes the low group, and
\* val >>= 7 takes ToInt32(val) = lo - 2^31, leaving (lo >> 7) - 2^24.
writeVarintHigh(arr, lo) ==
  writeVarint(Append(arr, (lo % 128) + 128), (lo \div 128) - 2 ^ 24)

\* A JS number n in [0, 2^32) is carried as <<hi, lo>> with n = hi*2^31 + lo.
writeVarintU32(arr, n) ==
  IF n[1] = 0 THEN writeVarint(arr, n[2]) ELSE writeVarintHigh(arr, n[2])

writeString(arr, fieldNumber, str) ==
  LET utf8 == Utf8(str)
  IN writeVarint(writeVarint(arr, fieldNumber * 8 + 2), Len(utf8)) \o utf8

\* (num << 1) ^ (num >> 31) on 32-bit integers; ToInt32(NaN) = 0.
zigZagEncode(num) ==
  IF IsNaN(num) THEN 0
  ELSE IF num >= 2 ^ 30 THEN (2 * (num - 2 ^ 30) - 2 ^ 30) - 2 ^ 30
  ELSE IF num >= 0 THEN 2 * num
  ELSE IF num >= 0 - 2 ^ 30 THEN (0 - 2 * num) - 1
  ELSE (0 - ((2 * (num + 2 ^ 30) + 2 ^ 30) + 2 ^ 30)) - 1

createPointGeometryCommand(x, y) == <<9, zigZagEncode(x), zigZagEncode(y)>>

RECURSIVE writeVarints(_, _)
writeVarints(arr, vals) ==
  IF vals = <<>> THEN arr
  ELSE writeVarints(writeVarint(arr, Head(vals)), Tail(vals))

\* encodeFeature with the geometry prefixed by the number of commands instead
\* of the number of bytes.
encodeFeatureCountsCommands(feature) ==
  LET geomCmds == createPointGeometryCommand(feature.x, feature.y)
      geomBuffer == writeVarints(<<>>, geomCmds)
      typed == writeVarint(writeVarint(<<>>, 24), 1)
      bytes == writeVarint(writeVarint(typed, 34), Len(geomCmds)) \o geomBuffer
  IN writeVarint(writeVarint(<<>>, 18), Len(bytes)) \o bytes

\* feature: a tile-space point [x, y].
encodeFeature(feature) ==
  LET geomCmds == createPointGeometryCommand(feature.x, feature.y)
      geomBuffer == writeVarints(<<>>, geomCmds)
      typed == writeVarint(writeVarint(<<>>, 24), 1)
      bytes == writeVarint(writeVarint(typed, 34), Len(geomBuffer)) \o geomBuffer
  IN writeVarint(writeVarint(<<>>, 18), Len(bytes)) \o bytes

RECURSIVE encodeFeatures(_, _)
encodeFeatures(arr, features) ==
  IF features = <<>> THEN arr
  ELSE encodeFeatures(arr \o encodeFeature(Head(features)), Tail(features))

encodeLayer(features, layerName, extent) ==
  LET named == writeString(<<>>, 1, layerName)
      extented == writeVarint(writeVarint(named, 40), extent)
      layerBytes == encodeFeatures(extented, features)
  IN writeVarint(writeVarint(<<>>, 26), Len(layerBytes)) \o layerBytes

\* ------------------------------------------- tile and lon/lat conversions
\* Program constants of the main part.
minzoom == 9
maxzoom == 18
Extent == 4096

\* Latitude codes outside the Mercator square.
Lat90 == 7 * N
LatOver90 == Lat90 + 1
LatS90 == 0 - 6 * N

\* Grid units per tile edge at zoom z (z <= GridBits).
TileSpan(z) == 2 ^ (GridBits - z)

tile2lon(x, z) == x * TileSpan(z)
tile2lat(y, z) == N - y * TileSpan(z)

tileBbox(z, x, y) ==
  <<tile2lon(x, z), tile2lat(y + 1, z), tile2lon(x + 1, z), tile2lat(y, z)>>

\* Mercator metres in grid units (one unit = 2*20037508.34/N metres).  The
\* logarithm is NaN above +90 (tangent negative), -Infinity at -90, and a
\* finite value at +90 (the tangent of the double nearest pi/2).
lonLatToMeters(lon, lat) ==
  <<IF IsNaN(lon) THEN NaN ELSE lon - N \div 2,
    IF IsNaN(lat) \/ lat > Lat90 \/ lat < LatS90 THEN NaN
    ELSE IF lat = LatS90 THEN NegInfinity
    ELSE lat - N \div 2>>

tileBboxMeters(z, x, y) ==
  LET b == tileBbox(z, x, y)
      lo == lonLatToMeters(b[1], b[2])
      hi == lonLatToMeters(b[3], b[4])
  IN <<lo[1], lo[2], hi[1], hi[2]>>

\* Math.floor(rel * extent) with rel = num / den, den > 0.
FloorScaled(num, den, extent) ==
  IF IsNaN(num) \/ IsNaN(den) THEN NaN ELSE (num * extent) \div den

projectToTileCoordinates(lon, lat, extent, bboxMerc) ==
  LET m == lonLatToMeters(lon, lat)
      width == bboxMerc[3] - bboxMerc[1]
      height == bboxMerc[4] - bboxMerc[2]
      xNum == IF IsNaN(m[1]) THEN NaN ELSE m[1] - bboxMerc[1]
      yNum == IF IsNaN(m[2]) THEN NaN ELSE bboxMerc[4] - m[2]
  IN <<FloorScaled(xNum, width, extent), FloorScaled(yNum, height, extent)>>

\* ------------------------------------------------------------ tile builder
\* The containment test with a half-open longitude interval (lon < east).
InTileHalfOpen(feat, z, x, y) ==
  LET b == tileBbox(z, x, y)
  IN Ge(feat.lon, b[1]) /\ Lt(feat.lon, b[3]) /\ Ge(feat.lat, b[2]) /\ Le(feat.lat, b[4])

\* The containment test of generateTilePbf for one input feature.
InTile(feat, z, x, y) ==
  LET b == tileBbox(z, x, y)
  IN Ge(feat.lon, b[1]) /\ Le(feat.lon, b[3]) /\ Ge(feat.lat, b[2]) /\ Le(feat.lat, b[4])

\* The clip-and-project loop: the surviving points in tile coordinates, in
\* input order (properties are carried by the program and never encoded).
RECURSIVE filterFeatures(_, _, _, _)
filterFeatures(features, z, x, y) ==
  IF features = <<>> THEN <<>>
  ELSE LET feat == Head(features)
           rest == filterFeatures(Tail(features), z, x, y)
       IN IF InTile(feat, z, x, y)
          THEN LET t == projectToTileCoordinates(feat.lon, feat.lat, Extent,
                                                 tileBboxMeters(z, x, y))
               IN <<[x |-> t[1], y |-> t[2]]>> \o rest
          ELSE rest

\* The clip loop writing the tile coordinates back into the input features.
geojsonAfterFilterInPlace(geojson, z, x, y) ==
  [i \in 1..Len(geojson) |->
     IF InTile(geojson[i], z, x, y)
     THEN LET t == projectToTileCoordinates(geojson[i].lon, geojson[i].lat, Extent,
                                            tileBboxMeters(z, x, y))
          IN [lon |-> t[1], lat |-> t[2]]
     ELSE geojson[i]]

\* The input collection after the loop has run: the loop reads each feature
\* and builds new objects; it assigns to no field of the input.
geojsonAfterFilter(geojson, z, x, y) == geojson

\* The tail of generateTilePbf without the early return for an empty tile.
tilePayloadAlwaysLayer(filteredFeatures) ==
  BufferFrom(encodeLayer(filteredFeatures, LayerName, Extent))

\* The tail of generateTilePbf: empty buffer, or the one encoded layer.
tilePayload(filteredFeatures) ==
  IF Len(filteredFeatures) = 0 THEN <<>>
  ELSE BufferFrom(encodeLayer(filteredFeatures, LayerName, Extent))

generateTilePbf(geojson, z, x, y) == tilePayload(filterFeatures(geojson, z, x, y))

\* -------------------------------------------------------- bbox and ranges
RECURSIVE BBoxFold(_, _)
BBoxFold(features, b) ==
  IF features = <<>> THEN b
  ELSE LET f == Head(features)
       IN BBoxFold(Tail(features),
                   <<IF Lt(f.lon, b[1]) THEN f.lon ELSE b[1],
                     IF Lt(f.lat, b[2]) THEN f.lat ELSE b[2],
                     IF Gt(f.lon, b[3]) THEN f.lon ELSE b[3],
                     IF Gt(f.lat, b[4]) THEN f.lat ELSE b[4]>>)

\* west = 180, south = 90, east = -180, north = -90 before the loop.
getGeoJsonBBox(geojson) == BBoxFold(geojson, <<N, Lat90, 0, LatS90>>)

long2tileX(lon, zoom) == IF IsNaN(lon) THEN NaN ELSE lon \div TileSpan(zoom)

\* Whether the latitude lies exactly on a row edge of the zoom.
OnRowEdge(lat, zoom) ==
  ~IsNaN(lat) /\ lat <= Lat90 /\ lat > LatS90 /\ (N - lat) % TileSpan(zoom) = 0

\* oneLow: the double expression evaluates just below the integer it equals
\* in exact arithmetic (only possible on a row edge), so Math.floor yields
\* the row above.
lat2tileY(lat, zoom, oneLow) ==
  IF IsNaN(lat) \/ lat > Lat90 \/ lat < LatS90 THEN NaN
  ELSE IF lat = LatS90 THEN Infinity
  ELSE ((N - lat) \div TileSpan(zoom))
       - (IF oneLow /\ OnRowEdge(lat, zoom) THEN 1 ELSE 0)

Clamp(v, maxIndex) == MathMax(0, MathMin(v, maxIndex))

\* getTileRangeFromBBox with yMin taken from the south and yMax from the north.
getTileRangeRowsSwapped(bbox, z, fl) ==
  LET maxIndex == 2 ^ z - 1
  IN <<Clamp(long2tileX(bbox[1], z), maxIndex),
       Clamp(long2tileX(bbox[3], z), maxIndex),
       Clamp(lat2tileY(bbox[2], z, fl.s), maxIndex),
       Clamp(lat2tileY(bbox[4], z, fl.n), maxIndex)>>

\* fl.n, fl.s: the rounding outcomes of lat2tileY(north) and lat2tileY(south).
getTileRangeFromBBox(bbox, z, fl) ==
  LET maxIndex == 2 ^ z - 1
  IN <<Clamp(long2tileX(bbox[1], z), maxIndex),
       Clamp(long2tileX(bbox[3], z), maxIndex),
       Clamp(lat2tileY(bbox[4], z, fl.n), maxIndex),
       Clamp(lat2tileY(bbox[2], z, fl.s), maxIndex)>>


\* ------------------------------------------------------------------ inputs
\* Grid coordinates next to the north-east corner of the Mercator square:
\* the last Span units up to longitude 180 (code N) and up to the northern
\* Mercator limit (northing N).  At maxzoom a tile spans 2^(GridBits - maxzoom)
\* units, so the set holds tile-interior points, points on shared tile edges
\* and points on the world edge.
GridCoords == (N - Span)..N

Feature(lon, lat) == [lon |-> lon, lat |-> lat]

\* Valid points, plus: a latitude between the Mercator limit and the pole,
\* latitude 90, a latitude above 90, a NaN latitude, a NaN longitude.
Points ==
  {Feature(a, b) : a \in GridCoords, b \in GridCoords}
    \cup {Feature(N - 1, b) : b \in {N + 1, Lat90, LatOver90, NaN}}
    \cup {Feature(NaN, N - 1)}

Inputs == UNION {[1..n -> Points] : n \in 0..MaxFeatures}

Zooms == minzoom..maxzoom

\* ---------------------------------------------------------------- state
VARIABLES
  geojson,  \* the parsed feature collection
  bbox,     \* [west, south, east, north] of step 2 of the main part
  fl,       \* rounding outcomes of lat2tileY on the bbox's north and south
  pc,       \* position of the main loop: "zoom", "column", "tile", "done"
  z, x, y,  \* loop variables
  range,    \* [xMin, xMax, yMin, yMax] of the current zoom
  dirs,     \* directories created: <<z, x>>
  files,    \* tile files written: [z, x, y, out]
  calls,    \* invocations of generateTilePbf made so far: [z, x, y, out]
  fn,       \* function harness: the last direct application and its result
  orig,     \* parallel harness: the collection as loaded
  task      \* parallel harness: each worker's tile computation

vars == <<geojson, bbox, fl, pc, z, x, y, range, dirs, files, calls, fn, orig, task>>

NoRounding == [n |-> FALSE, s |-> FALSE]
NoCall ==
  [op |-> "none", z |-> 0, x |-> 0, y |-> 0, arr |-> <<>>, n |-> <<0, 0>>,
   fl |-> NoRounding, out |-> <<>>]
Workers == {1, 2}
Idle == [st |-> "idle", z |-> 0, x |-> 0, y |-> 0, filtered |-> <<>>, out |-> <<>>]

\* The double lat2tileY(lat, z) is one value: equal latitudes round alike.
Roundings(b) ==
  {r \in [n : BOOLEAN, s : BOOLEAN] : b[4] = b[2] => r.n = r.s}

\* The state when the for loop over the zoom levels is about to start.
Init ==
  /\ geojson \in Inputs
  /\ bbox = getGeoJsonBBox(geojson)
  /\ fl \in Roundings(bbox)
  /\ pc = "zoom"
  /\ z = minzoom
  /\ x = 0
  /\ y = 0
  /\ range = <<0, 0, 0, 0>>
  /\ dirs = {}
  /\ files = {}
  /\ calls = {}
  /\ fn = NoCall
  /\ orig = geojson
  /\ task = [w \in Workers |-> Idle]

\* ------------------------------------------------------------- main loop
\* for (let z = minzoom; z <= maxzoom; z++): the test, and the range of z.
ZoomStep ==
  /\ pc = "zoom"
  /\ IF z <= maxzoom
     THEN /\ range' = getTileRangeFromBBox(bbox, z, fl)
          /\ x' = range'[1]
          /\ pc' = "column"
     ELSE /\ pc' = "done"
          /\ UNCHANGED <<range, x>>
  /\ UNCHANGED <<geojson, bbox, fl, z, y, dirs, files, calls, fn, orig, task>>

\* for (let x = xMin; x <= xMax; x++): the test, mkdirSync, and y = yMin;
\* at the end of the x loop, z++.
ColumnStep ==
  /\ pc = "column"
  /\ IF Le(x, range[2])
     THEN /\ dirs' = dirs \cup {<<z, x>>}
          /\ y' = range[3]
          /\ pc' = "tile"
          /\ UNCHANGED z
     ELSE /\ z' = z + 1
          /\ pc' = "zoom"
          /\ UNCHANGED <<dirs, y>>
  /\ UNCHANGED <<geojson, bbox, fl, x, range, files, calls, fn, orig, task>>

\* for (let y = yMin; y <= yMax; y++): the test and the body (generate the
\* tile, skip an empty buffer, write the file); at the end of the y loop, x++.
TileStep ==
  /\ pc = "tile"
  /\ IF Le(y, range[4])
     THEN LET pbfBuffer == generateTilePbf(geojson, z, x, y)
              rec == [z |-> z, x |-> x, y |-> y, out |-> pbfBuffer]
          IN /\ calls' = calls \cup {rec}
             /\ geojson' = geojsonAfterFilter(geojson, z, x, y)
             /\ files' = IF Len(pbfBuffer) = 0 THEN files ELSE files \cup {rec}
             /\ y' = y + 1
             /\ UNCHANGED <<x, pc>>
     ELSE /\ x' = x + 1
          /\ pc' = "column"
          /\ UNCHANGED <<geojson, y, files, calls>>
  /\ UNCHANGED <<bbox, fl, z, range, dirs, fn, orig, task>>

Next == ZoomStep \/ ColumnStep \/ TileStep

Spec == Init /\ [][Next]_vars

\* ------------------------------------------------------ function harness
\* Direct applications of the program's functions to drawn arguments.

\* Tiles around the drawn points: the last two columns and the first two
\* rows of every zoom of the run.
HarnessTiles ==
  UNION {{<<zz, xx, yy>> : xx \in (2 ^ zz - 2)..(2 ^ zz - 1), yy \in 0..1} :
           zz \in Zooms}

\* Arguments of writeVarint, as <<hi, lo>> for hi*2^31 + lo: the ends of
\* every byte length from one to five, and of the 32-bit unsigned range.
VarintArgs ==
  {<<0, v>> : v \in {0, 1, 127, 128, 300, 16383, 16384, 2097151, 2097152,
                     268435455, 268435456, 2147483647}}
    \cup {<<1, v>> : v \in {0, 1, 128, 2147483647}}

FnInit ==
  /\ geojson \in Inputs
  /\ bbox = getGeoJsonBBox(geojson)
  /\ fl = NoRounding
  /\ pc = "fn"
  /\ z = minzoom
  /\ x = 0
  /\ y = 0
  /\ range = <<0, 0, 0, 0>>
  /\ dirs = {}
  /\ files = {}
  /\ calls = {}
  /\ fn = NoCall
  /\ orig = geojson
  /\ task = [w \in Workers |-> Idle]

CallGenerateTilePbf ==
  /\ pc = "fn"
  /\ fn.op = "none"
  /\ \E t \in HarnessTiles :
       /\ fn' = [NoCall EXCEPT !.op = "generateTilePbf", !.z = t[1], !.x = t[2],
                            !.y = t[3],
                            !.out = generateTilePbf(geojson, t[1], t[2], t[3])]
       /\ geojson' = geojsonAfterFilter(geojson, t[1], t[2], t[3])
  /\ UNCHANGED <<bbox, fl, pc, z, x, y, range, dirs, files, calls, orig, task>>

CallWriteVarint ==
  /\ pc = "fn"
  /\ fn.op = "none"
  /\ \E n \in VarintArgs, arr \in {<<>>, <<255>>} :
       fn' = [NoCall EXCEPT !.op = "writeVarint", !.arr = arr, !.n = n,
                            !.out = writeVarintU32(arr, n)]
  /\ UNCHANGED <<geojson, bbox, fl, pc, z, x, y, range, dirs, files, calls, orig, task>>

CallGetTileRangeFromBBox ==
  /\ pc = "fn"
  /\ fn.op = "none"
  /\ \E zz \in Zooms, r \in Roundings(bbox) :
       fn' = [NoCall EXCEPT !.op = "getTileRangeFromBBox", !.z = zz, !.fl = r,
                            !.out = getTileRangeFromBBox(bbox, zz, r)]
  /\ UNCHANGED <<geojson, bbox, fl, pc, z, x, y, range, dirs, files, calls, orig, task>>

FnNext == CallGenerateTilePbf \/ CallWriteVarint \/ CallGetTileRangeFromBBox

FnSpec == FnInit /\ [][FnNext]_vars

\* ---------------------------------------------------------- wire decoding
\* A reader of the protobuf wire format, used to state what a payload holds.
BadVarint == [ok |-> FALSE, v |-> 0, next |-> 0]

RECURSIVE VarintFrom(_, _, _, _)
VarintFrom(b, p, acc, mul) ==
  IF p > Len(b) \/ p < 1 THEN BadVarint
  ELSE IF b[p] < 0 \/ b[p] > 255 THEN BadVarint
  ELSE IF b[p] >= 128 THEN VarintFrom(b, p + 1, acc + (b[p] - 128) * mul, mul * 128)
  ELSE [ok |-> TRUE, v |-> acc + b[p] * mul, next |-> p + 1]

VarintAt(b, p) == VarintFrom(b, p, 0, 1)

\* A packed run of varints filling b from position p to the end.
RECURSIVE PackedFrom(_, _)
PackedFrom(b, p) ==
  IF p > Len(b) THEN [ok |-> TRUE, vals |-> <<>>]
  ELSE LET v == VarintAt(b, p)
       IN IF ~v.ok THEN [ok |-> FALSE, vals |-> <<>>]
          ELSE LET r == PackedFrom(b, v.next)
               IN [ok |-> r.ok, vals |-> <<v.v>> \o r.vals]

BadFeature == [ok |-> FALSE, type |-> 0, geometry |-> <<>>]

\* A Feature body: field 3 (varint), then field 4 (length-delimited) whose
\* length prefix counts exactly the rest of the body.
DecodeFeature(b) ==
  IF Len(b) < 2 \/ b[1] # 24 THEN BadFeature
  ELSE LET t == VarintAt(b, 2)
       IN IF ~t.ok \/ t.next > Len(b) \/ b[t.next] # 34 THEN BadFeature
          ELSE LET l == VarintAt(b, t.next + 1)
               IN IF ~l.ok \/ l.v # Len(b) - l.next + 1 THEN BadFeature
                  ELSE LET g == PackedFrom(b, l.next)
                       IN [ok |-> g.ok, type |-> t.v, geometry |-> g.vals]

\* Field-2 frames filling b from position p to the end.
RECURSIVE FeaturesFrom(_, _)
FeaturesFrom(b, p) ==
  IF p > Len(b) THEN [ok |-> TRUE, list |-> <<>>]
  ELSE IF b[p] # 18 THEN [ok |-> FALSE, list |-> <<>>]
  ELSE LET l == VarintAt(b, p + 1)
       IN IF ~l.ok \/ l.next + l.v - 1 > Len(b) THEN [ok |-> FALSE, list |-> <<>>]
          ELSE LET f == DecodeFeature(SubSeq(b, l.next, l.next + l.v - 1))
                   r == FeaturesFrom(b, l.next + l.v)
               IN [ok |-> f.ok /\ r.ok,
                   list |-> <<[type |-> f.type, geometry |-> f.geometry]>> \o r.list]

BadLayer == [ok |-> FALSE, name |-> <<>>, extent |-> 0, features |-> <<>>]

\* A Layer body: field 1 (name), field 5 (extent), then field-2 frames.
DecodeLayerBody(b) ==
  IF Len(b) < 2 \/ b[1] # 10 THEN BadLayer
  ELSE LET l == VarintAt(b, 2)
       IN IF ~l.ok \/ l.next + l.v > Len(b) \/ b[l.next + l.v] # 40 THEN BadLayer
          ELSE LET e == VarintAt(b, l.next + l.v + 1)
               IN IF ~e.ok THEN BadLayer
                  ELSE LET fs == FeaturesFrom(b, e.next)
                       IN [ok |-> fs.ok, name |-> SubSeq(b, l.next, l.next + l.v - 1),
                           extent |-> e.v, features |-> fs.list]

\* A payload that is one field-3 frame and nothing else.
DecodeTile(buf) ==
  IF Len(buf) < 2 \/ buf[1] # 26 THEN BadLayer
  ELSE LET l == VarintAt(buf, 2)
       IN IF ~l.ok \/ l.v # Len(buf) - l.next + 1 THEN BadLayer
          ELSE DecodeLayerBody(SubSeq(buf, l.next, Len(buf)))

\* A varint of up to five bytes as <<hi, lo>> for hi*2^31 + lo.
DecodeU32(b) ==
  LET g(i) == IF i <= Len(b) THEN b[i] % 128 ELSE 0
  IN IF Len(b) > 5 \/ g(5) >= 16 THEN [ok |-> FALSE, n |-> <<0, 0>>]
     ELSE [ok |-> TRUE,
           n |-> <<g(5) \div 8,
                   g(1) + g(2) * 128 + g(3) * 16384 + g(4) * 2097152
                     + (g(5) % 8) * 268435456>>]

\* ------------------------------------------------------ parallel harness
\* The per-tile computations of one zoom level of the run (z, any zoom of
\* the run) handed to two workers in any order, interleaved between the clip
\* loop and the encoding, any number of times.
TilesOfRange(r, zz) ==
  IF \E i \in 1..4 : IsNaN(r[i]) THEN {}
  ELSE {<<zz, xx, yy>> : xx \in r[1]..r[2], yy \in r[3]..r[4]}

RunTiles == TilesOfRange(getTileRangeFromBBox(bbox, z, fl), z)

ParInit ==
  /\ geojson \in Inputs
  /\ bbox = getGeoJsonBBox(geojson)
  /\ fl = NoRounding
  /\ pc = "par"
  /\ z \in Zooms
  /\ x = 0
  /\ y = 0
  /\ range = <<0, 0, 0, 0>>
  /\ dirs = {}
  /\ files = {}
  /\ calls = {}
  /\ fn = NoCall
  /\ orig = geojson
  /\ task = [w \in Workers |-> Idle]

\* generateTilePbf up to the end of the clip loop.
StartTile(w) ==
  /\ pc = "par"
  /\ task[w].st \in {"idle", "done"}
  /\ \E t \in RunTiles :
       /\ task' = [task EXCEPT ![w] =
                     [st |-> "filtered", z |-> t[1], x |-> t[2], y |-> t[3],
                      filtered |-> filterFeatures(geojson, t[1], t[2], t[3]),
                      out |-> <<>>]]
       /\ geojson' = geojsonAfterFilter(geojson, t[1], t[2], t[3])
  /\ UNCHANGED <<bbox, fl, pc, z, x, y, range, dirs, files, calls, fn, orig>>

\* generateTilePbf from the emptiness test to the return.
FinishTile(w) ==
  /\ pc = "par"
  /\ task[w].st = "filtered"
  /\ task' = [task EXCEPT ![w].st = "done", ![w].out = tilePayload(task[w].filtered)]
  /\ UNCHANGED <<geojson, bbox, fl, pc, z, x, y, range, dirs, files, calls, fn, orig>>

ParNext == \E w \in Workers : StartTile(w) \/ FinishTile(w)

ParSpec == ParInit /\ [][ParNext]_vars

\* ================================================================ claims
\* The containment test as the specification words it: west <= lon <= east
\* and south <= lat <= north on the tile's geographic bbox.
Contained(f, zz, xx, yy) ==
  /\ ~IsNaN(f.lon) /\ ~IsNaN(f.lat)
  /\ tile2lon(xx, zz) <= f.lon /\ f.lon <= tile2lon(xx + 1, zz)
  /\ tile2lat(yy + 1, zz) <= f.lat /\ f.lat <= tile2lat(yy, zz)

Survivors(g, zz, xx, yy) == SelectSeq(g, LAMBDA f : Contained(f, zz, xx, yy))

TileCoords(f, zz, xx, yy) ==
  projectToTileCoordinates(f.lon, f.lat, Extent, tileBboxMeters(zz, xx, yy))

ExpectedFeature(f, zz, xx, yy) ==
  LET t == TileCoords(f, zz, xx, yy)
  IN [type |-> 1, geometry |-> <<9, zigZagEncode(t[1]), zigZagEncode(t[2])>>]

ExpectedLayer(g, zz, xx, yy) ==
  LET sv == Survivors(g, zz, xx, yy)
  IN [ok |-> TRUE, name |-> LayerName, extent |-> 4096,
      features |-> [i \in 1..Len(sv) |-> ExpectedFeature(sv[i], zz, xx, yy)]]

\* The payload holds a feature for the point f of tile (zz, xx, yy).
PayloadHasPoint(out, f, zz, xx, yy) ==
  /\ Contained(f, zz, xx, yy)
  /\ LET d == DecodeTile(out)
     IN d.ok /\ \E k \in 1..Len(d.features) :
                  d.features[k] = ExpectedFeature(f, zz, xx, yy)

\* C1: for every collection and tile with at least one point passing the
\* containment test, the payload is exactly one well-framed field-3 Layer
\* frame whose body is name "myLayer", extent 4096 and one field-2 Feature
\* per surviving point, in input order, each with type 1 and the geometry
\* [9, zigzag(xt), zigzag(yt)], every length prefix exact, and no byte before
\* or after the frame.
C1_LayerFraming ==
  (fn.op = "generateTilePbf" /\ Survivors(geojson, fn.z, fn.x, fn.y) # <<>>)
    => DecodeTile(fn.out) = ExpectedLayer(geojson, fn.z, fn.x, fn.y)

C1_Witness ==
  /\ fn.op = "generateTilePbf"
  /\ LET sv == Survivors(geojson, fn.z, fn.x, fn.y)
     IN /\ Len(sv) = 2
        /\ ExpectedFeature(sv[1], fn.z, fn.x, fn.y) # ExpectedFeature(sv[2], fn.z, fn.x, fn.y)
        /\ TileCoords(sv[1], fn.z, fn.x, fn.y)[1] = Extent
  /\ DecodeTile(fn.out).ok
  /\ Len(DecodeTile(fn.out).features) = 2

\* C2: for every n in [0, 2^32 - 1], writeVarint(arr, n) appends only bytes
\* in [0, 255], the continuation bit 0x80 set on every appended byte except
\* the last, and the appended bytes decode (little-endian base 128) to n.
C2_VarintRoundTrip ==
  fn.op = "writeVarint" =>
    LET k == Len(fn.arr)
        app == SubSeq(fn.out, k + 1, Len(fn.out))
    IN /\ SubSeq(fn.out, 1, k) = fn.arr
       /\ Len(app) >= 1
       /\ \A i \in 1..Len(app) : app[i] >= 0 /\ app[i] <= 255
       /\ \A i \in 1..(Len(app) - 1) : app[i] >= 128
       /\ app[Len(app)] < 128
       /\ DecodeU32(app) = [ok |-> TRUE, n |-> fn.n]

\* A coordinate the data model rules out: NaN, or a latitude at or beyond
\* the poles.
Malformed(f) == IsNaN(f.lon) \/ IsNaN(f.lat) \/ f.lat >= Lat90 \/ f.lat <= LatS90

\* C3: with a malformed input coordinate the run ends in a visible failure:
\* it never reaches its normal end (the completion message) with that input.
C3_MalformedInputFails ==
  (\E i \in 1..Len(geojson) : Malformed(geojson[i])) => pc # "done"

\* C4: every point passing the containment test of a tile gets tile-local
\* coordinates with 0 <= xt < 4096 and 0 <= yt < 4096, also on the tile's
\* east or south edge.
C4_TileCoordsBelowExtent ==
  fn.op = "generateTilePbf" =>
    LET ff == filterFeatures(geojson, fn.z, fn.x, fn.y)
    IN \A k \in 1..Len(ff) :
         /\ 0 <= ff[k].x /\ ff[k].x < Extent
         /\ 0 <= ff[k].y /\ ff[k].y < Extent

\* The bounding boxes the claim C5 speaks of.
OrderedBBox(b) == Le(b[1], b[3]) /\ Le(b[2], b[4]) /\ 0 <= b[1] /\ b[3] <= N

InRange(i, lo, hi) == Le(lo, i) /\ Le(i, hi)

\* C5 (as claimed): the directly computed tile indices of the box's corners
\* all lie inside the rectangle getTileRangeFromBBox returns, also when the
\* unclamped index falls outside [0, 2^z - 1].
C5_CornersInRange ==
  (fn.op = "getTileRangeFromBBox" /\ OrderedBBox(bbox)) =>
    LET r == fn.out
    IN /\ InRange(long2tileX(bbox[1], fn.z), r[1], r[2])
       /\ InRange(long2tileX(bbox[3], fn.z), r[1], r[2])
       /\ InRange(lat2tileY(bbox[4], fn.z, fn.fl.n), r[3], r[4])
       /\ InRange(lat2tileY(bbox[2], fn.z, fn.fl.s), r[3], r[4])

IndexIntoRange(i, maxIndex) == IF i < 0 THEN 0 ELSE IF i > maxIndex THEN maxIndex ELSE i

CornerInRangeWhenValid(i, lo, hi, maxIndex) ==
  /\ InRange(IndexIntoRange(i, maxIndex), lo, hi)
  /\ InRange(i, lo, hi) <=> (0 <= i /\ i <= maxIndex)

\* C5 (amended): for a box with latitudes in [-90, 90], every corner index
\* brought into [0, 2^z - 1] lies inside the rectangle, and the index itself
\* lies inside exactly when it is a valid tile index: a corner at longitude
\* 180 or beyond the Mercator limit has an index outside [0, 2^z - 1] and
\* outside the rectangle.
C5_ValidCornersInRange ==
  (fn.op = "getTileRangeFromBBox" /\ OrderedBBox(bbox)
     /\ LatS90 <= bbox[2] /\ bbox[4] <= Lat90) =>
    LET r == fn.out
        m == 2 ^ fn.z - 1
    IN /\ CornerInRangeWhenValid(long2tileX(bbox[1], fn.z), r[1], r[2], m)
       /\ CornerInRangeWhenValid(long2tileX(bbox[3], fn.z), r[1], r[2], m)
       /\ CornerInRangeWhenValid(lat2tileY(bbox[4], fn.z, fn.fl.n), r[3], r[4], m)
       /\ CornerInRangeWhenValid(lat2tileY(bbox[2], fn.z, fn.fl.s), r[3], r[4], m)

C5_Witness ==
  /\ fn.op = "getTileRangeFromBBox"
  /\ OrderedBBox(bbox)
  /\ bbox[3] = N
  /\ bbox[1] < N
  /\ bbox[4] > N /\ bbox[4] <= Lat90
  /\ long2tileX(bbox[3], fn.z) = 2 ^ fn.z
  /\ fn.out[2] = 2 ^ fn.z - 1
  /\ fn.out[3] = 0

\* The latitude lies within row yy of zoom zz.
InRow(f, zz, yy) ==
  ~IsNaN(f.lat) /\ tile2lat(yy + 1, zz) <= f.lat /\ f.lat <= tile2lat(yy, zz)

\* C6: a point whose longitude is tile2lon(x, z), x >= 1, and whose latitude
\* lies within row y is a feature of the payload of tile (z, x, y) and of the
\* payload of tile (z, x - 1, y).  Stated on each application: the payload of
\* the tile applied to holds every such point of its own west edge, and
\* every such point of the west edge of its eastern neighbour.
C6_WestEdgeInBothTiles ==
  fn.op = "generateTilePbf" =>
    \A i \in 1..Len(geojson) :
      LET f == geojson[i]
      IN (/\ InRow(f, fn.z, fn.y)
          /\ \/ (f.lon = tile2lon(fn.x, fn.z) /\ fn.x >= 1)
             \/ f.lon = tile2lon(fn.x + 1, fn.z))
           => PayloadHasPoint(fn.out, f, fn.z, fn.x, fn.y)

\* A point on the west edge of tile x, seen in the payload of tile x - 1.
C6_Witness ==
  /\ fn.op = "generateTilePbf"
  /\ fn.z = maxzoom
  /\ fn.x = 2 ^ maxzoom - 2
  /\ \E i \in 1..Len(geojson) :
       /\ geojson[i].lon = tile2lon(fn.x + 1, fn.z)
       /\ InRow(geojson[i], fn.z, fn.y)
       /\ PayloadHasPoint(fn.out, geojson[i], fn.z, fn.x, fn.y)
       /\ TileCoords(geojson[i], fn.z, fn.x, fn.y)[1] = Extent

\* C7: generateTilePbf returns a zero-length payload exactly when no input
\* point satisfies the containment test, and the main loop writes a file
\* exactly for the non-empty payloads.
C7_EmptyIffNoPoint ==
  /\ \A c \in calls :
       (Len(c.out) = 0) <=> (Survivors(geojson, c.z, c.x, c.y) = <<>>)
  /\ \A f \in files : Len(f.out) # 0 /\ f \in calls
  /\ \A c \in calls : Len(c.out) # 0 => c \in files

C7_Witness ==
  /\ pc = "done"
  /\ \E c \in calls : Len(c.out) = 0 /\ c.z = maxzoom
  /\ \E f \in files : f.z = maxzoom

\* The range of a zoom is empty, as the claim C8 words it.
EmptyRange(r) == Gt(r[1], r[2]) \/ Gt(r[3], r[4])

\* The zoom levels whose loop body has run to its end.
ZoomsDone == {zz \in Zooms : zz < z}

\* C8: a zoom whose range is empty (xMin > xMax or yMin > yMax) is skipped
\* entirely: no generateTilePbf call, no directory and no file for it.
C8_EmptyRangeSkipsZoom ==
  \A zz \in ZoomsDone :
    EmptyRange(getTileRangeFromBBox(bbox, zz, fl)) =>
      /\ \A c \in calls : c.z # zz
      /\ \A d \in dirs : d[1] # zz
      /\ \A f \in files : f.z # zz

\* C9: each tile's payload depends only on the collection as loaded and on
\* (z, x, y): the collection is never changed by a tile computation, and in
\* every order and interleaving, with repetitions, a finished computation
\* holds the bytes the function gives on the loaded collection.
C9_TileIndependentOfOthers ==
  /\ geojson = orig
  /\ \A w \in Workers :
       task[w].st = "done" =>
         task[w].out = generateTilePbf(orig, task[w].z, task[w].x, task[w].y)

C9_Witness ==
  /\ task[1].st = "done" /\ task[2].st = "filtered"
  /\ <<task[1].z, task[1].x, task[1].y>> # <<task[2].z, task[2].x, task[2].y>>
  /\ Len(task[1].out) # 0
  /\ Len(task[2].filtered) = 2

\* A point the data model allows: longitude in [-180, 180], latitude in
\* (-90, 90).
ValidPoint(f) ==
  /\ ~IsNaN(f.lon) /\ ~IsNaN(f.lat)
  /\ 0 <= f.lon /\ f.lon <= N
  /\ LatS90 < f.lat /\ f.lat < Lat90

\* C10: when the main loop has finished, every valid input point has, at
\* every zoom of the run, a written tile file whose payload holds a feature
\* for it.  Stated for collections of valid points only.
C10_NoValidPointLost ==
  (pc = "done" /\ \A i \in 1..Len(geojson) : ValidPoint(geojson[i])) =>
    \A i \in 1..Len(geojson) : \A zz \in Zooms :
      \E f \in files : f.z = zz /\ PayloadHasPoint(f.out, geojson[i], f.z, f.x, f.y)

=============================================================================
